---- MODULE Spec2Model ----
(***************************************************************************)
(* Job Listing Tracker (main.py): main -> scrape_data -> scrape_remoteok   *)
(* or scrape_generic_jobs -> sentinel -> CSV.                              *)
(*                                                                         *)
(* A parsed document is the sequence, in document order, of its candidate  *)
(* container elements; every element carries its tag name, its class list, *)
(* its attributes and the sequence of its descendants (document order).    *)
(* Text is a TLA+ string; strip, startswith, "in" and concatenation are    *)
(* computed on the characters.                                             *)
(***************************************************************************)
EXTENDS Integers, Sequences, FiniteSets, TLC

(***************************************************************************)
(* Strings                                                                 *)
(***************************************************************************)
Min(a, b) == IF a <= b THEN a ELSE b

\* Python's sub in s
Contains(s, sub) ==
    \E i \in 1..(Len(s) - Len(sub) + 1) : SubSeq(s, i, i + Len(sub) - 1) = sub

\* Python's s.startswith(p)
StartsWith(s, p) == Len(s) >= Len(p) /\ SubSeq(s, 1, Len(p)) = p

IsSpace(c) == c \in {" ", "\t", "\n"}

RECURSIVE LStrip(_)
LStrip(s) ==
    IF s = "" THEN ""
    ELSE IF IsSpace(SubSeq(s, 1, 1)) THEN LStrip(SubSeq(s, 2, Len(s)))
    ELSE s

RECURSIVE RStrip(_)
RStrip(s) ==
    IF s = "" THEN ""
    ELSE IF IsSpace(SubSeq(s, Len(s), Len(s))) THEN RStrip(SubSeq(s, 1, Len(s) - 1))
    ELSE s

\* Python's s.strip()
Strip(s) == RStrip(LStrip(s))

\* Python's sep.join(parts)
RECURSIVE Join(_, _)
Join(parts, sep) ==
    IF parts = <<>> THEN ""
    ELSE IF Len(parts) = 1 THEN parts[1]
    ELSE parts[1] \o sep \o Join(Tail(parts), sep)

Range(f) == {f[x] : x \in DOMAIN f}

\* Python's seq[:n]
Take(seq, n) == SubSeq(seq, 1, Min(n, Len(seq)))

(***************************************************************************)
(* Parsed elements and CSS selectors                                       *)
(***************************************************************************)
NoAttrs == [a \in {} |-> ""]

Elem(tag, classes, attrs, text, children) ==
    [tag |-> tag, classes |-> classes, attrs |-> attrs, text |-> text,
     children |-> children]

\* Python's None, as select_one returns it when nothing matches
None == Elem("#none", <<>>, NoAttrs, "", <<>>)

\* Tag.get(name, default)
Get(e, name, default) == IF name \in DOMAIN e.attrs THEN e.attrs[name] ELSE default

\* the value of the class attribute as the selector engine sees it
ClassAttr(e) == Join(e.classes, " ")

\* One compound selector: tag name, .class, [class*="sub"], [attr]; "" = no test
Sel(tag, cls, sub, attr) == [tag |-> tag, cls |-> cls, sub |-> sub, attr |-> attr]

MatchesCompound(e, c) ==
    /\ c.tag = "" \/ e.tag = c.tag
    /\ c.cls = "" \/ c.cls \in Range(e.classes)
    /\ c.sub = "" \/ (e.classes # <<>> /\ Contains(ClassAttr(e), c.sub))
    /\ c.attr = "" \/ c.attr \in DOMAIN e.attrs

\* a selector is a comma-separated group of compound selectors
Matches(e, selector) == \E k \in 1..Len(selector) : MatchesCompound(e, selector[k])

\* soup.select(selector): all matches, document order
RECURSIVE Select(_, _)
Select(nodes, selector) ==
    IF nodes = <<>> THEN <<>>
    ELSE (IF Matches(Head(nodes), selector) THEN <<Head(nodes)>> ELSE <<>>)
         \o Select(Tail(nodes), selector)

\* elem.select_one(selector): the first matching descendant, or None
SelectOne(e, selector) ==
    LET found == Select(e.children, selector)
    IN IF found = <<>> THEN None ELSE found[1]

\* truth value of a select_one result: None is false, a Tag is always true
Truthy(x) == x # None

(***************************************************************************)
(* Program constants and the pure parts of the extractors                  *)
(***************************************************************************)
RowCap == 30
ElemCap == 20
TagCap == 5

\* main: "Auto-add https:// if missing"
NormalizeUrl(u) ==
    IF StartsWith(u, "http://") \/ StartsWith(u, "https://") THEN u
    ELSE "https://" \o u

\* a dispatch that looks at the host only
KnownSiteByPrefix(u) == StartsWith(u, "https://remoteok.com")

\* scrape_data: if 'remoteok.com' in url
KnownSite(u) == Contains(u, "remoteok.com")

\* requests.get(...) followed by response.raise_for_status(): the exception
\* raised, "" when none is
FetchRaises(o) ==
    IF o.exc # "" THEN o.exc
    ELSE IF o.status >= 400 /\ o.status < 600 THEN "HTTPError"
    ELSE ""

\* an except clause that names one transport exception only
CatchesTimeoutOnly(exc) == exc = "Timeout"

\* scrape_data: except Exception
Catches(exc) == TRUE

\* soup.select('tr.job')
RowSelector == <<Sel("tr", "job", "", "")>>

\* a loop over all of job_rows
InspectedRowsUncapped(rows) == rows

\* job_rows[:30]
InspectedRows(rows) == Take(rows, RowCap)

\* a featured test that looks at the first class only
IsFeaturedFirstClass(job) == job.classes # <<>> /\ job.classes[1] = "featured"

\* 'featured' in job.get('class', [])
IsFeatured(job) == "featured" \in Range(job.classes)

\* if company_elem and position_elem
RowEmits(job) ==
    /\ Truthy(SelectOne(job, <<Sel("h3", "", "", "")>>))
    /\ Truthy(SelectOne(job, <<Sel("h2", "", "", "")>>))

\* link = job.get('data-url', ''), prefixed when it does not start with 'http'
NormalizeLink(link) ==
    IF link # "" /\ ~StartsWith(link, "http") THEN "https://remoteok.com" \o link
    ELSE link

\* [tag.text.strip() for tag in tags[:5]]
TagTexts(tags) == [j \in 1..Len(Take(tags, TagCap)) |-> Strip(tags[j].text)]

\* the record appended for one row of scrape_remoteok
RowRecord(job) ==
    LET company_elem == SelectOne(job, <<Sel("h3", "", "", "")>>)
        position_elem == SelectOne(job, <<Sel("h2", "", "", "")>>)
        tags == Select(job.children, <<Sel("", "tag", "", "")>>)
    IN [company |-> Strip(company_elem.text),
        position |-> Strip(position_elem.text),
        skills |-> Join(TagTexts(tags), ", "),
        link |-> NormalizeLink(Get(job, "data-url", "")),
        source |-> "RemoteOK"]

\* scrape_generic_jobs: job_selectors
job_selectors ==
    << <<Sel("div", "job", "", "")>>,
       <<Sel("div", "job-listing", "", "")>>,
       <<Sel("article", "job", "", "")>>,
       <<Sel("li", "job", "", "")>>,
       <<Sel("div", "", "job", "")>>,
       <<Sel("div", "", "listing", "")>> >>

\* 'h2, h3, .title, [class*="title"]'
TitleSelector ==
    <<Sel("h2", "", "", ""), Sel("h3", "", "", ""), Sel("", "title", "", ""),
      Sel("", "", "title", "")>>

\* '.company, [class*="company"]'
CompanySelector == <<Sel("", "company", "", ""), Sel("", "", "company", "")>>

\* 'a[href]'
LinkSelector == <<Sel("a", "", "", "href")>>

\* soup.select(selector)[:20]
MatchedElements(soup_, selector) == Take(Select(soup_, selector), ElemCap)

\* if title
ElemEmits(job_elem) == Truthy(SelectOne(job_elem, TitleSelector))

\* an element record whose missing company is left empty
ElemRecordEmptyCompany(job_elem, u) ==
    LET title == SelectOne(job_elem, TitleSelector)
        company == SelectOne(job_elem, CompanySelector)
        link == SelectOne(job_elem, LinkSelector)
    IN [company |-> IF Truthy(company) THEN Strip(company.text) ELSE "",
        position |-> Strip(title.text),
        skills |-> "N/A",
        link |-> IF Truthy(link) THEN Get(link, "href", "") ELSE "",
        source |-> u]

\* the record appended for one element of scrape_generic_jobs
ElemRecord(job_elem, u) ==
    LET title == SelectOne(job_elem, TitleSelector)
        company == SelectOne(job_elem, CompanySelector)
        link == SelectOne(job_elem, LinkSelector)
    IN [company |-> IF Truthy(company) THEN Strip(company.text) ELSE "N/A",
        position |-> Strip(title.text),
        skills |-> "N/A",
        link |-> IF Truthy(link) THEN Get(link, "href", "") ELSE "",
        source |-> u]

\* a break keyed on the raw matches instead of the records kept
StopsOnRawMatch(jobs_, job_elements_) == job_elements_ # <<>>

\* if jobs: break
StopsAfterPattern(jobs_, job_elements_) == jobs_ # <<>>

\* scrape_data: if not data: data.append({...})
Sentinel(u) ==
    [company |-> "N/A", position |-> "No jobs found", skills |-> "N/A",
     link |-> u, source |-> u]

\* a scrape_data that returns the empty list as it is
WithoutSentinel(data_, u) == data_

WithSentinel(data_, u) == IF data_ = <<>> THEN <<Sentinel(u)>> ELSE data_

\* df.to_csv(output_path, index=False): header row, then one line per record
CsvRow(r) == <<r.company, r.position, r.skills, r.link, r.source>>

ToCsv(frame) ==
    <<<<"company", "position", "skills", "link", "source">>>>
        \o [j \in 1..Len(frame) |-> CsvRow(frame[j])]

(***************************************************************************)
(* Inputs: command-line URLs, fetch outcomes, documents                    *)
(***************************************************************************)
MaxShort == 2
MaxOver == 1

ArgUrls ==
    {"https://remoteok.com/remote-python-jobs", "mirror.example.com/remoteok.com/jobs",
     "http://jobs.example.org/list", "boards.example.net/remote"}

FetchOutcomes ==
    {[exc |-> "Timeout", status |-> 0], [exc |-> "ConnectionError", status |-> 0],
     [exc |-> "", status |-> 200], [exc |-> "", status |-> 404],
     [exc |-> "", status |-> 503]}

Leaf(tag, classes, text) == Elem(tag, classes, NoAttrs, text, <<>>)

Anchor(href) == Elem("a", <<>>, ("href" :> href), "Apply", <<>>)

Row(classes, attrs, children) == Elem("tr", classes, attrs, "", children)

RowA ==
    Row(<<"job">>, ("data-url" :> "/job/1"),
        <<Leaf("h2", <<>>, "Backend Engineer"), Leaf("h3", <<>>, "Company A"),
          Leaf("div", <<"tag">>, "Python"), Leaf("div", <<"tag">>, "AWS")>>)

RowFeatured ==
    Row(<<"job", "featured">>, ("data-url" :> "/job/9"),
        <<Leaf("h2", <<>>, "Sponsored Role"), Leaf("h3", <<>>, "AdCorp")>>)

RowNoTitle == Row(<<"job">>, ("data-url" :> "/job/5"), <<Leaf("h3", <<>>, "Acme")>>)

RowBlankTitle ==
    Row(<<"job">>, NoAttrs, <<Leaf("h2", <<>>, "  "), Leaf("h3", <<>>, "Acme")>>)

RowAbsolute ==
    Row(<<"job">>, ("data-url" :> "https://remoteok.com/job/2"),
        <<Leaf("h2", <<>>, "Data Engineer"), Leaf("h3", <<>>, "Company B"),
          Leaf("div", <<"tag">>, " Go "), Leaf("div", <<"tag">>, "SQL"),
          Leaf("div", <<"tag">>, "K8s"), Leaf("div", <<"tag">>, "GCP"),
          Leaf("div", <<"tag">>, "Rust"), Leaf("div", <<"tag">>, "Java")>>)

RowHttpRel ==
    Row(<<"job">>, ("data-url" :> "http-jobs/3"),
        <<Leaf("h2", <<>>, "Tester"), Leaf("h3", <<>>, "Initrode")>>)

RowFtp ==
    Row(<<"job">>, ("data-url" :> "ftp://files.example/4"),
        <<Leaf("h2", <<>>, "Archivist"), Leaf("h3", <<>>, "Umbrella")>>)

RowBare ==
    Row(<<"job">>, NoAttrs, <<Leaf("h2", <<>>, " Dev\n"), Leaf("h3", <<>>, " Acme ")>>)

RowOther ==
    Row(<<"ad">>, ("data-url" :> "/ad/1"),
        <<Leaf("h2", <<>>, "Buy now"), Leaf("h3", <<>>, "AdCorp")>>)

DivJob ==
    Elem("div", <<"job">>, NoAttrs, "",
         <<Leaf("h2", <<>>, "Data Engineer"), Leaf("span", <<"company">>, "Initech"),
           Anchor("/jobs/7")>>)

DivJobBare == Elem("div", <<"job">>, NoAttrs, "", <<Leaf("p", <<>>, "Sponsored")>>)

Card ==
    Elem("div", <<"jobcard">>, NoAttrs, "",
         <<Leaf("span", <<"job-title">>, "QA Lead"),
           Leaf("div", <<"company-name">>, " Globex ")>>)

CardNoCompany ==
    Elem("div", <<"jobcard", "wide">>, NoAttrs, "",
         <<Leaf("h3", <<>>, "SRE"), Anchor("https://x.example/sre")>>)

DivListing ==
    Elem("div", <<"job-listing">>, NoAttrs, "",
         <<Leaf("span", <<"title">>, "Designer"), Leaf("a", <<>>, "Apply")>>)

LiBlank ==
    Elem("li", <<"job">>, NoAttrs, "",
         <<Leaf("h2", <<>>, ""), Leaf("span", <<"company">>, "Hooli"), Anchor("")>>)

ArticleJob ==
    Elem("article", <<"job">>, NoAttrs, "",
         <<Leaf("h3", <<>>, " Writer "), Leaf("span", <<"company">>, "Pied Piper")>>)

DivListingOnly ==
    Elem("div", <<"listing">>, NoAttrs, "", <<Leaf("b", <<"listing-title">>, "PM")>>)

RowKinds ==
    {RowA, RowFeatured, RowNoTitle, RowBlankTitle, RowAbsolute, RowHttpRel, RowFtp,
     RowBare, RowOther}

ElemKinds ==
    {DivJob, DivJobBare, Card, CardNoCompany, DivListing, LiBlank, ArticleJob,
     DivListingOnly}

Kinds == RowKinds \cup ElemKinds

Repeat(e, n) == [j \in 1..n |-> e]

ShortDocs == UNION {[1..n -> Kinds] : n \in 0..MaxShort}

\* the two example documents of the specification's testable properties
ExampleDocs == {<<RowA, RowFeatured, RowAbsolute>>, <<Card, CardNoCompany, Card>>}

LongRowDocs ==
    {h \o Repeat(f, n) \o t :
        h \in {<<>>, <<RowA>>, <<RowFeatured>>},
        f \in {RowFeatured, RowBare},
        n \in (RowCap - 1)..(RowCap + MaxOver),
        t \in {<<>>, <<RowA>>, <<RowFeatured>>}}

LongElemDocs ==
    {h \o Repeat(f, n) \o t :
        h \in {<<>>, <<DivJobBare>>, <<Card>>},
        f \in {DivJob, DivJobBare},
        n \in (ElemCap - 1)..(ElemCap + MaxOver),
        t \in {<<>>, <<DivJob>>, <<Card>>}}

Docs == ShortDocs \cup ExampleDocs \cup LongRowDocs \cup LongElemDocs

(***************************************************************************)
(* State                                                                   *)
(***************************************************************************)
VARIABLES
    pc,            \* position of the single thread of control
    arg_url,       \* args.url
    url,           \* url, after main's scheme check
    response,      \* the outcome of requests.get
    soup,          \* the parsed document of the extractor that fetched
    job_rows,      \* scrape_remoteok: soup.select('tr.job')
    i,             \* scrape_remoteok: index of the next row of job_rows[:30]
    sel,           \* scrape_generic_jobs: index of the current selector
    job_elements,  \* scrape_generic_jobs: the elements of the current selector
    k,             \* scrape_generic_jobs: index of the next element
    jobs,          \* the extractor's local list
    data,          \* scrape_data's list
    df,            \* the frame scrape_data returned
    csv,           \* the lines of the output file
    warned,        \* the "[WARN] Error" line was printed
    error,         \* the exception that ended the run, "" when none
    fetches,       \* history: number of HTTP GETs issued
    called,        \* history: extractors invoked, in order
    origin,        \* history: for each record of jobs, the selector and index it came from
    tried,         \* history: selectors attempted, in order
    evaluated      \* history: elements evaluated, per selector

vars ==
    <<pc, arg_url, url, response, soup, job_rows, i, sel, job_elements, k, jobs, data, df, csv,
      warned, error, fetches, called, origin, tried, evaluated>>

NoResponse == [exc |-> "", status |-> 0]

extractor_vars == <<soup, job_rows, i, sel, job_elements, k, jobs, origin, tried, evaluated>>

NumSelectors == Len(job_selectors)

Init ==
    /\ pc = "main"
    /\ arg_url \in ArgUrls
    /\ url = ""
    /\ response = NoResponse
    /\ soup = <<>>
    /\ job_rows = <<>>
    /\ i = 1
    /\ sel = 1
    /\ job_elements = <<>>
    /\ k = 1
    /\ jobs = <<>>
    /\ data = <<>>
    /\ df = <<>>
    /\ csv = <<>>
    /\ warned = FALSE
    /\ error = ""
    /\ fetches = 0
    /\ called = <<>>
    /\ origin = <<>>
    /\ tried = <<>>
    /\ evaluated = [s \in 1..NumSelectors |-> 0]

(***************************************************************************)
(* main and scrape_data                                                    *)
(***************************************************************************)
\* main: parse the arguments, add the scheme, call scrape_data
Main ==
    /\ pc = "main"
    /\ url' = NormalizeUrl(arg_url)
    /\ pc' = "scrape_data"
    /\ UNCHANGED <<arg_url, response, data, df, csv, warned, error, fetches, called>>
    /\ UNCHANGED extractor_vars

\* scrape_data: data = [], then the call of one extractor inside the try
Dispatch ==
    /\ pc = "scrape_data"
    /\ data' = <<>>
    /\ IF KnownSite(url)
       THEN pc' = "remoteok_fetch" /\ called' = Append(called, "scrape_remoteok")
       ELSE pc' = "generic_fetch" /\ called' = Append(called, "scrape_generic_jobs")
    /\ UNCHANGED <<arg_url, response, url, df, csv, warned, error, fetches>>
    /\ UNCHANGED extractor_vars

\* an exception leaves the extractor: scrape_data's except clause prints the
\* warning and goes on with data = []; an exception it does not catch ends the run
Raise(exc) ==
    IF Catches(exc)
    THEN /\ pc' = "after_try"
         /\ warned' = TRUE
         /\ error' = error
    ELSE /\ pc' = "crashed"
         /\ warned' = warned
         /\ error' = exc

(***************************************************************************)
(* scrape_remoteok                                                         *)
(***************************************************************************)
\* sleep, requests.get, raise_for_status, BeautifulSoup, select('tr.job')
RemoteokFetch ==
    /\ pc = "remoteok_fetch"
    /\ fetches' = fetches + 1
    /\ \E o \in FetchOutcomes :
          /\ response' = o
          /\ IF FetchRaises(o) # ""
             THEN /\ Raise(FetchRaises(o))
                  /\ UNCHANGED extractor_vars
             ELSE /\ \E doc \in Docs :
                        /\ soup' = doc
                        /\ job_rows' = Select(doc, RowSelector)
                  /\ jobs' = <<>>
                  /\ origin' = <<>>
                  /\ i' = 1
                  /\ pc' = "remoteok_rows"
                  /\ UNCHANGED <<warned, error, sel, job_elements, k, tried, evaluated>>
    /\ UNCHANGED <<arg_url, url, data, df, csv, called>>

\* one iteration of: for job in job_rows[:30].  Nothing in the body can raise
\* AttributeError or KeyError (every select_one result is tested before its
\* text is read, and Tag.get has a default), so the except clause has no step.
RemoteokRow ==
    /\ pc = "remoteok_rows"
    /\ i <= Len(InspectedRows(job_rows))
    /\ LET job == InspectedRows(job_rows)[i]
       IN IF ~IsFeatured(job) /\ RowEmits(job)
          THEN /\ jobs' = Append(jobs, RowRecord(job))
               /\ origin' = Append(origin, [sel |-> 0, idx |-> i])
          ELSE UNCHANGED <<jobs, origin>>
    /\ i' = i + 1
    /\ UNCHANGED <<pc, arg_url, url, response, soup, job_rows, sel, job_elements, k, data,
                   df, csv, warned, error, fetches, called, tried, evaluated>>

\* return jobs, assigned to data in scrape_data
RemoteokReturn ==
    /\ pc = "remoteok_rows"
    /\ i > Len(InspectedRows(job_rows))
    /\ data' = jobs
    /\ pc' = "after_try"
    /\ UNCHANGED <<arg_url, response, url, df, csv, warned, error, fetches, called>>
    /\ UNCHANGED extractor_vars

(***************************************************************************)
(* scrape_generic_jobs                                                     *)
(***************************************************************************)
\* requests.get, raise_for_status, BeautifulSoup
GenericFetch ==
    /\ pc = "generic_fetch"
    /\ fetches' = fetches + 1
    /\ \E o \in FetchOutcomes :
          /\ response' = o
          /\ IF FetchRaises(o) # ""
             THEN /\ Raise(FetchRaises(o))
                  /\ UNCHANGED extractor_vars
             ELSE /\ \E doc \in Docs : soup' = doc
                  /\ jobs' = <<>>
                  /\ origin' = <<>>
                  /\ sel' = 1
                  /\ pc' = "generic_select"
                  /\ UNCHANGED <<warned, error, job_rows, i, job_elements, k, tried, evaluated>>
    /\ UNCHANGED <<arg_url, url, data, df, csv, called>>

\* for selector in job_selectors: job_elements = soup.select(selector)[:20];
\* an empty job_elements goes on with the next selector
GenericSelect ==
    /\ pc = "generic_select"
    /\ sel <= NumSelectors
    /\ LET matched == MatchedElements(soup, job_selectors[sel])
       IN /\ job_elements' = matched
          /\ IF matched # <<>>
             THEN pc' = "generic_elems" /\ k' = 1 /\ sel' = sel
             ELSE pc' = "generic_select" /\ k' = k /\ sel' = sel + 1
    /\ tried' = Append(tried, sel)
    /\ UNCHANGED <<arg_url, url, response, soup, job_rows, i, jobs, data, df, csv, warned, error,
                   fetches, called, origin, evaluated>>

\* one iteration of: for job_elem in job_elements (its except clause cannot
\* be entered either: company and link are tested before use)
GenericElem ==
    /\ pc = "generic_elems"
    /\ k <= Len(job_elements)
    /\ LET job_elem == job_elements[k]
       IN IF ElemEmits(job_elem)
          THEN /\ jobs' = Append(jobs, ElemRecord(job_elem, url))
               /\ origin' = Append(origin, [sel |-> sel, idx |-> k])
          ELSE UNCHANGED <<jobs, origin>>
    /\ k' = k + 1
    /\ evaluated' = [evaluated EXCEPT ![sel] = @ + 1]
    /\ UNCHANGED <<pc, arg_url, url, response, soup, job_rows, i, sel, job_elements, data,
                   df, csv, warned, error, fetches, called, tried>>

\* after the elements of a selector: if jobs: break, else the next selector
GenericEndPattern ==
    /\ pc = "generic_elems"
    /\ k > Len(job_elements)
    /\ IF StopsAfterPattern(jobs, job_elements)
       THEN pc' = "generic_return" /\ sel' = sel
       ELSE pc' = "generic_select" /\ sel' = sel + 1
    /\ UNCHANGED <<arg_url, url, response, soup, job_rows, i, job_elements, k, jobs, data, df, csv,
                   warned, error, fetches, called, origin, tried, evaluated>>

\* return jobs (after a break, or when the selectors are exhausted)
GenericReturn ==
    /\ \/ pc = "generic_return"
       \/ pc = "generic_select" /\ sel > NumSelectors
    /\ data' = jobs
    /\ pc' = "after_try"
    /\ UNCHANGED <<arg_url, response, url, df, csv, warned, error, fetches, called>>
    /\ UNCHANGED extractor_vars

(***************************************************************************)
(* scrape_data's sentinel and main's output                                *)
(***************************************************************************)
\* if not data: data.append(sentinel); return pd.DataFrame(data)
Finish ==
    /\ pc = "after_try"
    /\ data' = WithSentinel(data, url)
    /\ df' = WithSentinel(data, url)
    /\ pc' = "write"
    /\ UNCHANGED <<arg_url, response, url, csv, warned, error, fetches, called>>
    /\ UNCHANGED extractor_vars

\* mkdir and df.to_csv: the file system accepts the write or raises OSError
WriteCsv ==
    /\ pc = "write"
    /\ \E writable \in BOOLEAN :
          IF writable
          THEN csv' = ToCsv(df) /\ pc' = "done" /\ error' = error
          ELSE csv' = csv /\ pc' = "crashed" /\ error' = "OSError"
    /\ UNCHANGED <<arg_url, response, url, data, df, warned, fetches, called>>
    /\ UNCHANGED extractor_vars

Next ==
    \/ Main
    \/ Dispatch
    \/ RemoteokFetch
    \/ RemoteokRow
    \/ RemoteokReturn
    \/ GenericFetch
    \/ GenericSelect
    \/ GenericElem
    \/ GenericEndPattern
    \/ GenericReturn
    \/ Finish
    \/ WriteCsv

Spec == Init /\ [][Next]_vars

(***************************************************************************)
(* Properties                                                              *)
(***************************************************************************)
TransportExceptions == {"Timeout", "ConnectionError", "HTTPError"}

\* the fetch ended in a timeout, a connection failure or an error status
FetchFailed ==
    \/ response.exc \in {"Timeout", "ConnectionError"}
    \/ response.exc = "" /\ response.status >= 400 /\ response.status < 600

\* scrape_data has returned its frame
Returned == pc \in {"write", "done"} \/ (pc = "crashed" /\ error = "OSError")

SentinelRow ==
    [company |-> "N/A", position |-> "No jobs found", skills |-> "N/A",
     link |-> url, source |-> url]

\* C1 (sentinel invariant): whenever scrape_data has returned, its frame is
\* not empty, and if the selected extractor yielded zero records the frame is
\* exactly one row with position "No jobs found", company "N/A", skills "N/A"
\* and link = source = the URL scrape_data was called with; if it yielded
\* records the frame is those records.
C1_SentinelInvariant ==
    Returned =>
        /\ df # <<>>
        /\ jobs = <<>> => df = <<SentinelRow>>
        /\ jobs # <<>> => df = jobs

\* C1 witness: a document with elements was fetched, the extractor kept no
\* record, and the sentinel row was written out.
C1_Witness ==
    /\ pc = "done"
    /\ response.status = 200
    /\ soup # <<>>
    /\ jobs = <<>>
    /\ df = <<SentinelRow>>

\* C2 (transport errors): an exception raised by the fetch of either
\* extractor (timeout, connection failure, error status) never ends the run:
\* scrape_data prints the warning, returns exactly the one-row sentinel for
\* the URL, and the run goes on to the write of the output; the only
\* exception that can end the run is the file system's OSError, and a run
\* that ends normally has written the header and the sentinel row.
C2_TransportErrorsDegrade ==
    /\ error \notin TransportExceptions
    /\ FetchFailed =>
          /\ warned
          /\ jobs = <<>>
          /\ pc \in {"after_try", "write", "done", "crashed"}
          /\ pc = "after_try" => data = <<>>
          /\ pc \in {"after_try", "write"} => ENABLED Next
          /\ Returned => df = <<SentinelRow>>
          /\ pc = "crashed" => error = "OSError"
          /\ pc = "done" =>
                /\ error = ""
                /\ csv = <<<<"company", "position", "skills", "link", "source">>,
                           <<"N/A", "No jobs found", "N/A", url, url>>>>

\* C2 witness: a run whose fetch got an error status ended normally.
C2_Witness ==
    /\ pc = "done"
    /\ response.status = 503
    /\ warned
    /\ Len(csv) = 2

\* C3 (dispatch): scrape_data invokes exactly one extractor and issues at
\* most one fetch: scrape_remoteok iff the URL contains "remoteok.com",
\* scrape_generic_jobs otherwise; the generic extractor never runs in an
\* invocation that ran the site-specific one, also when that one yields
\* zero records.
C3_Dispatch ==
    /\ Len(called) <= 1
    /\ fetches <= 1
    /\ pc \notin {"main", "scrape_data"} => Len(called) = 1
    /\ called # <<>> =>
          called[1] = IF Contains(url, "remoteok.com") THEN "scrape_remoteok"
                      ELSE "scrape_generic_jobs"
    /\ called = <<"scrape_remoteok">> =>
          /\ tried = <<>>
          /\ \A s \in 1..NumSelectors : evaluated[s] = 0
          /\ pc \notin {"generic_fetch", "generic_select", "generic_elems", "generic_return"}
    /\ called = <<"scrape_generic_jobs">> =>
          pc \notin {"remoteok_fetch", "remoteok_rows"}
    /\ pc \in {"after_try", "write", "done"} => fetches = 1

\* C3 witness: the URL names the known site by a substring that is not its
\* host, the site-specific extractor kept nothing of a document that the
\* first generic pattern matches, and the run ended without the generic
\* extractor.
C3_Witness ==
    /\ pc = "done"
    /\ called = <<"scrape_remoteok">>
    /\ ~StartsWith(url, "https://remoteok.com")
    /\ response.status = 200
    /\ jobs = <<>>
    /\ Select(soup, job_selectors[1]) # <<>>
    /\ fetches = 1

\* scrape_remoteok has returned its list
RemoteokDone ==
    /\ called = <<"scrape_remoteok">>
    /\ response.status = 200
    /\ pc \in {"after_try", "write", "done", "crashed"}

\* scrape_generic_jobs has left its loop over the selectors
GenericDone ==
    /\ called = <<"scrape_generic_jobs">>
    /\ response.status = 200
    /\ pc \in {"generic_return", "after_try", "write", "done", "crashed"}

HasTitle(e) == Select(e.children, TitleSelector) # <<>>

\* C4 (required field), as claimed: no record kept by either extractor has an
\* empty position, also when the title element exists with empty or
\* whitespace-only text.
C4_RequiredField == \A j \in 1..Len(jobs) : jobs[j].position # ""

\* the elements of pattern s (first 20 matches) that pass the title filter
Kept(s) ==
    LET matched == Take(Select(soup, job_selectors[s]), ElemCap)
    IN SelectSeq(matched, HasTitle)

\* the earliest pattern with at least one kept element, 0 when there is none
Winner ==
    IF \E s \in 1..NumSelectors : Kept(s) # <<>>
    THEN CHOOSE s \in 1..NumSelectors :
            Kept(s) # <<>> /\ \A t \in 1..(s - 1) : Kept(t) = <<>>
    ELSE 0

\* C5 (pattern short-circuit): the patterns are tried in their fixed order;
\* all records come from one pattern, the earliest whose first 20 matches
\* keep a record after the title filter; no later pattern is tried, every
\* earlier one was (a pattern whose matches all lack a title does not stop
\* the search), and without such a pattern all six are tried and nothing is
\* returned.
C5_PatternShortCircuit ==
    called = <<"scrape_generic_jobs">> =>
        /\ tried = [j \in 1..Len(tried) |-> j]
        /\ \A j \in 1..Len(origin) : origin[j].sel = origin[1].sel
        /\ GenericDone =>
              IF Winner = 0
              THEN jobs = <<>> /\ Len(tried) = NumSelectors
              ELSE /\ Len(tried) = Winner
                   /\ \A j \in 1..Len(origin) : origin[j].sel = Winner
                   /\ jobs = [j \in 1..Len(Kept(Winner)) |-> ElemRecord(Kept(Winner)[j], url)]

\* C5 witness: the first pattern matched elements that all lack a title, a
\* later pattern supplied the records, and a pattern after it, which matches
\* titled elements too, was never tried.
C5_Witness ==
    /\ GenericDone
    /\ pc = "done"
    /\ Select(soup, job_selectors[1]) # <<>>
    /\ Winner > 1
    /\ \E s \in (Winner + 1)..NumSelectors : Kept(s) # <<>>
    /\ jobs # <<>>

\* C6 (caps): scrape_remoteok inspects at most 30 rows and returns at most 30
\* records however many rows the document has; scrape_generic_jobs evaluates
\* at most 20 elements for each pattern and returns at most 20 records.
C6_Caps ==
    /\ Len(jobs) <= 30
    /\ Len(data) <= 30
    /\ called = <<"scrape_remoteok">> => i - 1 <= 30
    /\ \A j \in 1..Len(origin) : origin[j].idx <= 30
    /\ called = <<"scrape_generic_jobs">> =>
          /\ Len(job_elements) <= 20
          /\ \A s \in 1..NumSelectors : evaluated[s] <= 20
          /\ Len(jobs) <= 20

\* C6 witness: a document with more than 30 rows gave exactly 30 records.
C6_Witness ==
    /\ RemoteokDone
    /\ pc = "done"
    /\ Len(job_rows) > 30
    /\ Len(jobs) = 30

\* the rows among the first n that are not flagged as featured
NonFeaturedAmong(n) ==
    {r \in 1..Min(n, Len(job_rows)) : "featured" \notin Range(job_rows[r].classes)}

\* C7 (featured-row exclusion): every record of scrape_remoteok is the record
\* of a row that is not flagged as featured, and the number of records never
\* exceeds the number of non-featured rows among the rows inspected.
C7_FeaturedExcluded ==
    called = <<"scrape_remoteok">> =>
        /\ Len(origin) = Len(jobs)
        /\ \A j \in 1..Len(jobs) :
              /\ origin[j].idx \in NonFeaturedAmong(i - 1)
              /\ jobs[j] = RowRecord(job_rows[origin[j].idx])
        /\ Len(jobs) <= Cardinality(NonFeaturedAmong(i - 1))

\* C7 witness: among the rows inspected is a featured row with a company and
\* a title, next to rows that did give records.
C7_Witness ==
    /\ RemoteokDone
    /\ pc = "done"
    /\ jobs # <<>>
    /\ \E r \in 1..Min(30, Len(job_rows)) :
          /\ "featured" \in Range(job_rows[r].classes)
          /\ Select(job_rows[r].children, <<Sel("h2", "", "", "")>>) # <<>>
          /\ Select(job_rows[r].children, <<Sel("h3", "", "", "")>>) # <<>>

Letters ==
    {"a", "b", "c", "d", "e", "f", "g", "h", "i", "j", "k", "l", "m", "n", "o", "p",
     "q", "r", "s", "t", "u", "v", "w", "x", "y", "z"}

SchemeChars == Letters \cup {"0", "1", "2", "3", "4", "5", "6", "7", "8", "9", "+", "-", "."}

\* s starts with a URL scheme: a letter, then letters, digits, + - . and a colon
HasScheme(s) ==
    \E n \in 2..Len(s) :
        /\ SubSeq(s, n, n) = ":"
        /\ SubSeq(s, 1, 1) \in Letters
        /\ \A m \in 2..(n - 1) : SubSeq(s, m, m) \in SchemeChars

\* C8 (link normalization), as claimed: a record's link is "" when the row
\* has no (or an empty) data-url, the data-url itself when that starts with a
\* scheme, and the site's base URL followed by the data-url otherwise.
C8_LinkNormalization ==
    called = <<"scrape_remoteok">> =>
        \A j \in 1..Len(jobs) :
            LET raw == Get(job_rows[origin[j].idx], "data-url", "")
            IN jobs[j].link =
                  IF raw = "" THEN ""
                  ELSE IF HasScheme(raw) THEN raw
                  ELSE "https://remoteok.com" \o raw

\* indices, among the elements evaluated so far, of those with a title
TitledSoFar ==
    {m \in 1..Min(k - 1, Len(job_elements)) : HasTitle(job_elements[m])}

\* C9 (generic field defaults): the records are, in document order, one for
\* each element with a title among those the current pattern evaluated (its
\* first 20 matches); company is "N/A" when the element has no company
\* sub-element, link is "" when it has no anchor with href, skills is "N/A"
\* and source is the URL scrape_data was called with.
C9_GenericFieldDefaults ==
    called = <<"scrape_generic_jobs">> =>
        /\ Len(origin) = Len(jobs)
        /\ Len(jobs) = Cardinality(TitledSoFar)
        /\ \A j \in 1..Len(jobs) :
              LET e == job_elements[origin[j].idx]
              IN /\ origin[j].idx \in TitledSoFar
                 /\ origin[j].sel = sel
                 /\ j > 1 => origin[j - 1].idx < origin[j].idx
                 /\ jobs[j].position = Strip(Select(e.children, TitleSelector)[1].text)
                 /\ Select(e.children, CompanySelector) = <<>> => jobs[j].company = "N/A"
                 /\ Select(e.children, CompanySelector) # <<>> =>
                       jobs[j].company = Strip(Select(e.children, CompanySelector)[1].text)
                 /\ Select(e.children, LinkSelector) = <<>> => jobs[j].link = ""
                 /\ jobs[j].skills = "N/A"
                 /\ jobs[j].source = url

\* C9 witness: the specification's example, three div[class*="job"] elements
\* with titles of which the second has no company, gave three records with
\* "N/A" on exactly the second.
C9_Witness ==
    /\ GenericDone
    /\ pc = "done"
    /\ soup = <<Card, CardNoCompany, Card>>
    /\ Len(jobs) = 3
    /\ jobs[1].company = "Globex"
    /\ jobs[2].company = "N/A"
    /\ jobs[3].company = "Globex"
    /\ jobs[1].link = ""
    /\ \A j \in 1..3 : jobs[j].skills = "N/A" /\ jobs[j].source = url

NotFeatured(r) == "featured" \notin Range(r.classes)

\* what scrape_remoteok returns for a document whose tr.job rows are rows
ScrapedFrom(rows) ==
    LET emitting == SelectSeq(SelectSeq(Take(rows, 30), NotFeatured), RowEmits)
    IN [j \in 1..Len(emitting) |-> RowRecord(emitting[j])]

\* C10, as claimed: featured rows take none of the 30-row cap, so the records
\* returned equal the records returned for the same document with its
\* featured rows removed.
C10_FeaturedRowsFree ==
    RemoteokDone => jobs = ScrapedFrom(SelectSeq(job_rows, NotFeatured))

\* C10, amended: a featured row gives no record but does take one of the 30
\* inspected rows: the rows inspected are the first 30 of the document,
\* featured ones included, and the records returned equal the records
\* returned for the document's first 30 rows with the featured ones removed
\* (hence for the document with its featured rows removed whenever it has at
\* most 30 rows).
C10_FeaturedRowsCount ==
    RemoteokDone =>
        /\ i - 1 = Min(30, Len(job_rows))
        /\ jobs = ScrapedFrom(SelectSeq(Take(job_rows, 30), NotFeatured))
        /\ Len(job_rows) <= 30 => jobs = ScrapedFrom(SelectSeq(job_rows, NotFeatured))

\* C10 witness: featured rows among the first 30 pushed a valid row past the
\* cap, so the result differs from that of the document without them.
C10_Witness ==
    /\ RemoteokDone
    /\ pc = "done"
    /\ Len(job_rows) > 30
    /\ \E r \in 1..30 : ~NotFeatured(job_rows[r])
    /\ jobs # ScrapedFrom(SelectSeq(job_rows, NotFeatured))

====
